---- MODULE Spec2Model ----
(***************************************************************************)
(* A model of freq-motif-fastq (src/freq-motif-fastq/src/main.rs): the     *)
(* run of main from the call of process_reads_and_write_fasta to the       *)
(* removal of temp.fasta.                                                  *)
(*                                                                         *)
(* Text is modelled character by character: a line (a Rust String) is a    *)
(* sequence of one-character strings, ASCII only, so that byte length and  *)
(* character count agree as they do for the nucleotide alphabet.  An item  *)
(* of the line iterator (io::Result<String>) is a record [ok, text].       *)
(* f64 proportions are exact rationals compared by cross-multiplication:   *)
(* ratio is the percentage given on the command line, min_proportion is    *)
(* ratio / 100, and count / total > min_proportion is                      *)
(* count * 100 > ratio * total.  (Both sides of the f64 comparison are     *)
(* correctly rounded quotients of small integers, so the f64 comparison    *)
(* agrees with the exact one for the lengths modelled here.)               *)
(***************************************************************************)
EXTENDS Integers, Sequences, FiniteSets, TLC

VARIABLES
    pc,                 \* position of main: "create", "skip", "loop", "sdust", "parse",
                        \* "table", "save", "plot", "cleanup", "done", or how the
                        \* run was aborted: "panic_<what>" (a failed expect, a panic
                        \* of the runtime) or "exit_<tool>" (process::exit(1))
    input,              \* the content of the FASTQ file, one io::Result<String> per line
    lines,              \* the iterator reader.lines(): the items not yet consumed
    max_reads,          \* args.max_reads
    ratio,              \* args.ratio, a percentage; min_proportion = ratio / 100
    skip_reads,         \* args.skip
    skipped,            \* the counter of the skip loop
    motif_counts,       \* HashMap motif -> number of reads voting for it
    total_reads,        \* number of reads processed
    read_lengths,       \* HashMap read id -> sequence length
    fasta_exists,       \* temp.fasta exists on disk
    fasta,              \* the lines written to temp.fasta
    sequence,           \* the sequence of the read processed last
    motif_frequencies,  \* the per-read HashMap motif -> count of the read processed last
    hits,               \* the motifs of that read with proportion > min_proportion
    io_error_seen,      \* lines.next() has returned Some(Err(_))
    sdust_invoked,      \* Command::new("sdust") has been run
    dust_output_data,   \* standard output of sdust, line by line
    low_complexity_reads,
    proportions,        \* HashMap label -> percentage
    csv_written,        \* freq-motif.csv has been written
    csv                 \* the rows of freq-motif.csv: label -> formatted proportion

vars == <<pc, input, lines, max_reads, ratio, skip_reads, skipped, motif_counts,
          total_reads, read_lengths, fasta_exists, fasta, sequence,
          motif_frequencies, hits, io_error_seen, sdust_invoked, dust_output_data,
          low_complexity_reads, proportions, csv_written, csv>>

----------------------------------------------------------------------------
(* Bounds of the model *)

MaxLines == 8          \* lines of the input file
MaxErrLines == 6       \* lines of an input file that holds an unreadable line
MaxRunLines == 6       \* lines of the input file of a whole run
MaxRunErrLines == 2    \* the same, when the file holds an unreadable line
MaxSkip == 1           \* args.skip
MaxReads == 2          \* args.max_reads
MaxReportLines == 2    \* lines printed by sdust

----------------------------------------------------------------------------
(* Maps (HashMap) *)

EmptyMap == [k \in {} |-> 0]

\* *map.entry(k).or_insert(0) += n
AddTo(map, k, n) ==
    IF k \in DOMAIN map THEN [map EXCEPT ![k] = @ + n] ELSE map @@ (k :> n)

\* map.insert(k, v)
Insert(map, k, v) ==
    [x \in DOMAIN map \cup {k} |-> IF x = k THEN v ELSE map[x]]

Min(a, b) == IF a <= b THEN a ELSE b

\* n calls of lines.next(): each consumes one item, if there is one
Drop(s, n) == SubSeq(s, Min(n, Len(s)) + 1, Len(s))

\* the i-th call of lines.next() from here returns Some(Ok(_))
IsOkAt(s, i) == IF i <= Len(s) THEN s[i].ok ELSE FALSE

\* some of the first n items is an Err
ErrAmong(s, n) == \E i \in 1..Min(n, Len(s)) : ~s[i].ok

----------------------------------------------------------------------------
(* The input file: FASTQ records of four lines *)

Ok(text) == [ok |-> TRUE, text |-> text]
Err == [ok |-> FALSE, text |-> <<>>]

\* Header lines: the sentinel and an identifier; an empty line where a header is due
Headers == { <<"@", "a">>, <<"@", "b">>, <<>> }
\* Sequence lines, with characters outside {A,T,G,C} and one shorter than 2
Seqs == { <<"A">>, <<"N", "N">>, <<"A", "T", "A">>, <<"A", "T", "A", "T", "A", "T">> }
PlusLine == <<"+">>

\* The sequence lines that may follow a header (the empty header: one sequence only)
SeqsAfter(header) == IF header = <<>> THEN { <<"A", "T", "A">> } ELSE Seqs

\* The quality lines that may follow a sequence: one mark per base, and for the
\* one-base read also a quality line longer than the sequence
QualsAfter(seq) ==
    IF Len(seq) = 1 THEN { <<"I">>, <<"I", "I">> } ELSE { [i \in 1..Len(seq) |-> "I"] }

\* The lines that may come next in a file that holds the lines s
NextLines(s) ==
    CASE Len(s) % 4 = 0 -> Headers
      [] Len(s) % 4 = 1 -> SeqsAfter(s[Len(s)])
      [] Len(s) % 4 = 2 -> { PlusLine }
      [] Len(s) % 4 = 3 -> QualsAfter(s[Len(s) - 1])

\* The files of n lines: whole records and one that may be cut short
RECURSIVE FilesOfLen(_)
FilesOfLen(n) ==
    IF n = 0 THEN { <<>> }
    ELSE UNION { { Append(s, l) : l \in NextLines(s) } : s \in FilesOfLen(n - 1) }

FilesUpTo(n) == UNION { FilesOfLen(k) : k \in 0..n }

AsItems(s) == [i \in 1..Len(s) |-> Ok(s[i])]

\* The files of at most n lines, and those of at most m lines one line of which
\* cannot be read (invalid UTF-8, a failing device)
InputsUpTo(n, m) ==
    { AsItems(s) : s \in FilesUpTo(n) }
    \cup UNION { { [AsItems(s) EXCEPT ![e] = Err] : e \in 1..Len(s) } : s \in FilesUpTo(m) }

Ratios == { 10, 50 }

----------------------------------------------------------------------------
(* Motif Frequency Engine: main.rs lines 205-236 *)

\* for i in 0..length: the windows of 2 and of 3 characters that start at i
RECURSIVE CountWindows(_, _, _)
CountWindows(seq, i, freq) ==
    IF i >= Len(seq) THEN freq
    ELSE LET f2 == IF i + 2 <= Len(seq)
                   THEN AddTo(freq, SubSeq(seq, i + 1, i + 2), 1) ELSE freq
             f3 == IF i + 3 <= Len(seq)
                   THEN AddTo(f2, SubSeq(seq, i + 1, i + 3), 1) ELSE f2
         IN CountWindows(seq, i + 1, f3)

MotifFrequencies(seq) == CountWindows(seq, 0, EmptyMap)

\* (the comparison of line 233 written >=)
IsHitGE(motif, count, length, r) ==
    IF Len(motif) = 2
    THEN count * 100 >= r * (length - 1)
    ELSE count * 100 >= r * (length - 2)

\* proportion > min_proportion, for a motif counted `count` times in a read of `length`
IsHit(motif, count, length, r) ==
    IF Len(motif) = 2
    THEN count * 100 > r * (length - 1)
    ELSE count * 100 > r * (length - 2)

\* the motifs of the per-read map that cross the threshold
HitSet(freq, length, r) == { m \in DOMAIN freq : IsHit(m, freq[m], length, r) }

\* (line 234 adding the count of the motif in the read, not 1)
AddVotesPerOccurrence(counts, freq, voted) ==
    [m \in DOMAIN counts \cup voted |->
        (IF m \in DOMAIN counts THEN counts[m] ELSE 0)
        + (IF m \in voted THEN freq[m] ELSE 0)]

\* *motif_counts.entry(motif).or_insert(0) += 1, for each motif over the threshold
AddVotes(counts, freq, voted) ==
    [m \in DOMAIN counts \cup voted |->
        (IF m \in DOMAIN counts THEN counts[m] ELSE 0)
        + (IF m \in voted THEN 1 ELSE 0)]

----------------------------------------------------------------------------
(* Mask Merge Aggregator: parse_dust_output, main.rs lines 248-278 *)

Whitespace == { " ", "\t" }

\* line.split_whitespace().collect()
RECURSIVE Tokens(_, _, _, _)
Tokens(line, i, cur, acc) ==
    IF i > Len(line) THEN (IF cur = <<>> THEN acc ELSE Append(acc, cur))
    ELSE IF line[i] \in Whitespace
         THEN Tokens(line, i + 1, <<>>, IF cur = <<>> THEN acc ELSE Append(acc, cur))
         ELSE Tokens(line, i + 1, Append(cur, line[i]), acc)

SplitWhitespace(line) == Tokens(line, 1, <<>>, <<>>)

DigitValue ==
    ("0" :> 0) @@ ("1" :> 1) @@ ("2" :> 2) @@ ("3" :> 3) @@ ("4" :> 4)
    @@ ("5" :> 5) @@ ("6" :> 6) @@ ("7" :> 7) @@ ("8" :> 8) @@ ("9" :> 9)

\* the digits of a token: str::parse::<usize> accepts one leading "+", no "-"
DigitsOf(tok) == IF tok # <<>> /\ Head(tok) = "+" THEN Tail(tok) ELSE tok

\* parts[k].parse::<usize>() is Ok (the tokens modelled stay far below 2^64)
IsUsize(tok) ==
    /\ DigitsOf(tok) # <<>>
    /\ \A i \in 1..Len(DigitsOf(tok)) : DigitsOf(tok)[i] \in DOMAIN DigitValue

RECURSIVE DecimalValue(_)
DecimalValue(digits) ==
    IF digits = <<>> THEN 0
    ELSE 10 * DecimalValue(SubSeq(digits, 1, Len(digits) - 1))
         + DigitValue[digits[Len(digits)]]

UsizeValue(tok) == DecimalValue(DigitsOf(tok))

(* usize arithmetic.  A usize is held as the representative, of small absolute   *)
(* value, of its residue modulo 2^64: a negative n stands for 2^64 + n, the      *)
(* value a wrapping subtraction leaves.  Sums of representatives represent the   *)
(* wrapping sums.  With overflow checks (a debug build) end - start panics when  *)
(* end < start; without them (a release build) it wraps.                         *)

\* for line in dust_data.lines(): the masked-base table, or the panic of
\* expect("Invalid start/end position") or of the subtraction
RECURSIVE MaskLoop(_, _, _, _)
MaskLoop(data, i, masked, overflow_checks) ==
    IF i > Len(data) THEN [panic |-> "no", masked |-> masked]
    ELSE LET parts == SplitWhitespace(data[i])
         IN IF Len(parts) # 3 THEN MaskLoop(data, i + 1, masked, overflow_checks)
            ELSE IF ~IsUsize(parts[2]) \/ ~IsUsize(parts[3])
                 THEN [panic |-> "panic_parse", masked |-> masked]
            ELSE LET start == UsizeValue(parts[2])
                     end == UsizeValue(parts[3])
                 IN IF end < start /\ overflow_checks
                    THEN [panic |-> "panic_overflow", masked |-> masked]
                    ELSE MaskLoop(data, i + 1,
                                  AddTo(masked, parts[1], end - start + 1),
                                  overflow_checks)

\* (masked as f64) / (total_length as f64) > min_proportion; a wrapped masked
\* value is above 2^63 and over every threshold
MaskedOver(masked, total_length, r) ==
    IF masked < 0 THEN TRUE ELSE masked * 100 > r * total_length

\* the second loop of parse_dust_output: the reads over the threshold
CountLowComplexity(masked, lengths, r) ==
    Cardinality({ name \in DOMAIN masked :
                    /\ name \in DOMAIN lengths
                    /\ MaskedOver(masked[name], lengths[name], r) })

\* [panic, count]: the value parse_dust_output returns, or how it panics
ParseDustOutput(data, lengths, r, overflow_checks) ==
    LET m == MaskLoop(data, 1, EmptyMap, overflow_checks)
    IN [panic |-> m.panic,
        count |-> IF m.panic # "no" THEN 0 ELSE CountLowComplexity(m.masked, lengths, r)]

\* The lines sdust may print
ReportLines ==
    { <<"a", " ", "2", " ", "4">>,        \* a 2 4
      <<"b", "\t", "1", "\t", "2">>,      \* b 1 2, tab separated
      <<"c", " ", "1", " ", "3">>,        \* a read that is in no record
      <<"a", " ", "2">>,                  \* two tokens
      <<"a", " ", "x", " ", "4">>,        \* start is no integer
      <<"a", " ", "-", "1", " ", "4">>,   \* a negative start
      <<"a", " ", "5", " ", "2">> }       \* end < start

RECURSIVE ReportsOfLen(_)
ReportsOfLen(n) ==
    IF n = 0 THEN { <<>> }
    ELSE { Append(d, l) : d \in ReportsOfLen(n - 1), l \in ReportLines }

Reports == UNION { ReportsOfLen(n) : n \in 0..MaxReportLines }

----------------------------------------------------------------------------
(* Ranker/Sink: main.rs lines 83-98, 124-143, 281-291 *)

Bases == { "A", "T", "G", "C" }

\* initialize_all_motifs: the keys
AllMotifs ==
    { <<b1, b2>> : b1 \in Bases, b2 \in Bases }
    \cup { <<b1, b2, b3>> : b1 \in Bases, b2 \in Bases, b3 \in Bases }

LowComplexity == <<"L", "o", "w", "C", "o", "m", "p", "l", "e", "x", "i", "t", "y">>

\* f64 values: a rational num/den, or NaN, or an infinity
Zero == [kind |-> "num", num |-> 0, den |-> 1]

\* (count as f64 / total as f64) * 100.0
Percentage(count, total) ==
    IF total # 0 THEN [kind |-> "num", num |-> count * 100, den |-> total]
    ELSE IF count = 0 THEN [kind |-> "nan", num |-> 0, den |-> 0]
    ELSE [kind |-> "inf", num |-> 0, den |-> 0]

\* main.rs 83-91: the zero-filled table, the vote percentages, the LowComplexity entry
BuildProportions(counts, total, low) ==
    [label \in AllMotifs \cup DOMAIN counts \cup {LowComplexity} |->
        IF label = LowComplexity THEN Percentage(low, total)
        ELSE IF label \in DOMAIN counts THEN Percentage(counts[label], total)
        ELSE Zero]

\* format!("{:.4}", proportion): the number of ten-thousandths, rounded to the
\* nearest (no modelled value lies half-way), or the text NaN or inf
Format4(p) ==
    IF p.kind = "num"
    THEN [kind |-> "num", fixed4 |-> (2 * p.num * 10000 + p.den) \div (2 * p.den)]
    ELSE [kind |-> p.kind, fixed4 |-> 0]

\* save_to_csv: one row per entry
CsvRows(table) == [label \in DOMAIN table |-> Format4(table[label])]

----------------------------------------------------------------------------
(* process_reads_and_write_fasta: main.rs lines 158-245 *)

TypeInit(file) ==
    /\ pc = "create"
    /\ input = file
    /\ lines = file
    /\ max_reads \in 0..MaxReads
    /\ ratio \in Ratios
    /\ skip_reads \in 0..MaxSkip
    /\ skipped = 0
    /\ motif_counts = EmptyMap
    /\ total_reads = 0
    /\ read_lengths = EmptyMap
    /\ fasta_exists = FALSE
    /\ fasta = <<>>
    /\ sequence = <<>>
    /\ motif_frequencies = EmptyMap
    /\ hits = {}
    /\ io_error_seen = FALSE
    /\ sdust_invoked = FALSE
    /\ dust_output_data = <<>>
    /\ low_complexity_reads = 0
    /\ proportions = EmptyMap
    /\ csv_written = FALSE
    /\ csv = EmptyMap

\* The reader is open on the input file and main is about to call
\* process_reads_and_write_fasta (main.rs line 64)
Init == \E file \in InputsUpTo(MaxRunLines, MaxRunErrLines) : TypeInit(file)

InitReader == \E file \in InputsUpTo(MaxLines, MaxErrLines) : TypeInit(file)

readerVars == <<motif_counts, total_reads, read_lengths, fasta, sequence,
                motif_frequencies, hits>>
mainVars == <<sdust_invoked, dust_output_data, low_complexity_reads, proportions,
              csv_written, csv>>
argVars == <<input, max_reads, ratio, skip_reads>>

\* File::create(fasta_file).expect(..): main.rs line 168
CreateFasta ==
    /\ pc = "create"
    /\ \/ /\ fasta_exists' = TRUE
          /\ pc' = IF skip_reads = 0 THEN "loop" ELSE "skip"
       \/ /\ fasta_exists' = FALSE
          /\ pc' = "panic_create"
    /\ UNCHANGED <<argVars, lines, skipped, readerVars, io_error_seen, mainVars>>

\* One turn of the skip loop: four calls of lines.next(), results dropped
SkipRecord ==
    /\ pc = "skip"
    /\ skipped < skip_reads
    /\ lines' = Drop(lines, 4)
    /\ io_error_seen' = (io_error_seen \/ ErrAmong(lines, 4))
    /\ skipped' = skipped + 1
    /\ pc' = IF skipped + 1 = skip_reads THEN "loop" ELSE "skip"
    /\ UNCHANGED <<argVars, readerVars, fasta_exists, mainVars>>

\* while let Some(Ok(header)) = lines.next() fails: end of file, or an Err
ReadEnd ==
    /\ pc = "loop"
    /\ ~IsOkAt(lines, 1)
    /\ lines' = Drop(lines, 1)
    /\ io_error_seen' = (io_error_seen \/ ErrAmong(lines, 1))
    /\ pc' = "sdust"
    /\ UNCHANGED <<argVars, skipped, readerVars, fasta_exists, mainVars>>

\* if let Some(Ok(sequence)) = lines.next() fails: the body is passed over and
\* lines 239-240 consume two more lines
ReadNoSequence ==
    /\ pc = "loop"
    /\ IsOkAt(lines, 1)
    /\ ~IsOkAt(lines, 2)
    /\ lines' = Drop(lines, 4)
    /\ io_error_seen' = (io_error_seen \/ ErrAmong(lines, 4))
    /\ UNCHANGED <<argVars, pc, skipped, readerVars, fasta_exists, mainVars>>

HeaderAndSequence ==
    /\ pc = "loop"
    /\ IsOkAt(lines, 1)
    /\ IsOkAt(lines, 2)

\* if total_reads >= max_reads { break; }
ReadBreak ==
    /\ HeaderAndSequence
    /\ total_reads >= max_reads
    /\ lines' = Drop(lines, 2)
    /\ pc' = "sdust"
    /\ UNCHANGED <<argVars, skipped, readerVars, fasta_exists, io_error_seen, mainVars>>

\* if length < 2 { continue; }: back to the loop head, lines 239-240 not run
ReadShort ==
    /\ HeaderAndSequence
    /\ total_reads < max_reads
    /\ Len(lines[2].text) < 2
    /\ lines' = Drop(lines, 2)
    /\ UNCHANGED <<argVars, pc, skipped, readerVars, fasta_exists, io_error_seen,
                   mainVars>>

\* &header[1..] on an empty header: byte index 1 is out of bounds
ReadPanic ==
    /\ HeaderAndSequence
    /\ total_reads < max_reads
    /\ Len(lines[2].text) >= 2
    /\ lines[1].text = <<>>
    /\ total_reads' = total_reads + 1
    /\ lines' = Drop(lines, 2)
    /\ pc' = "panic_header"
    /\ UNCHANGED <<argVars, skipped, motif_counts, read_lengths, fasta, sequence,
                   motif_frequencies, hits, fasta_exists, io_error_seen, mainVars>>

\* A valid read: lines 192-236, then lines 239-240
ReadProcess ==
    /\ HeaderAndSequence
    /\ total_reads < max_reads
    /\ Len(lines[2].text) >= 2
    /\ lines[1].text # <<>>
    /\ LET header == lines[1].text
           seq == lines[2].text
           length == Len(seq)
           read_id == Tail(header)
           freq == MotifFrequencies(seq)
       IN /\ total_reads' = total_reads + 1
          /\ fasta' = fasta \o << <<">">> \o read_id, seq >>
          /\ read_lengths' = Insert(read_lengths, read_id, length)
          /\ sequence' = seq
          /\ motif_frequencies' = freq
          /\ hits' = HitSet(freq, length, ratio)
          /\ motif_counts' = AddVotes(motif_counts, freq, HitSet(freq, length, ratio))
    /\ lines' = Drop(lines, 4)
    /\ io_error_seen' = (io_error_seen \/ ErrAmong(Drop(lines, 2), 2))
    /\ UNCHANGED <<argVars, pc, skipped, fasta_exists, mainVars>>

NextReader ==
    \/ CreateFasta
    \/ SkipRecord
    \/ ReadEnd
    \/ ReadNoSequence
    \/ ReadBreak
    \/ ReadShort
    \/ ReadPanic
    \/ ReadProcess

\* process_reads_and_write_fasta alone, on the larger input files
SpecReader == InitReader /\ [][NextReader]_vars

----------------------------------------------------------------------------
(* main: lines 67-114 *)

\* Command::new("sdust").arg(&fasta_file).output(): lines 68-78
RunSdust ==
    /\ pc = "sdust"
    /\ sdust_invoked' = TRUE
    /\ \/ /\ pc' = "panic_sdust"              \* sdust cannot be executed
          /\ UNCHANGED dust_output_data
       \/ /\ pc' = "exit_sdust"               \* sdust exits non-zero
          /\ UNCHANGED dust_output_data
       \/ /\ \E out \in Reports : dust_output_data' = out
          /\ pc' = "parse"
    /\ UNCHANGED <<argVars, lines, skipped, readerVars, fasta_exists, io_error_seen,
                   low_complexity_reads, proportions, csv_written, csv>>

\* let low_complexity_reads = parse_dust_output(..): line 79, in a build with
\* or without overflow checks
ParseDust ==
    /\ pc = "parse"
    /\ \E overflow_checks \in BOOLEAN :
          LET res == ParseDustOutput(dust_output_data, read_lengths, ratio,
                                     overflow_checks)
          IN IF res.panic # "no"
             THEN pc' = res.panic /\ UNCHANGED low_complexity_reads
             ELSE pc' = "table" /\ low_complexity_reads' = res.count
    /\ UNCHANGED <<argVars, lines, skipped, readerVars, fasta_exists, io_error_seen,
                   sdust_invoked, dust_output_data, proportions, csv_written, csv>>

\* lines 83-95: the table (the order sort_by leaves is not represented)
BuildTable ==
    /\ pc = "table"
    /\ proportions' = BuildProportions(motif_counts, total_reads, low_complexity_reads)
    /\ pc' = "save"
    /\ UNCHANGED <<argVars, lines, skipped, readerVars, fasta_exists, io_error_seen,
                   sdust_invoked, dust_output_data, low_complexity_reads,
                   csv_written, csv>>

\* save_to_csv(..).expect(..): lines 97-98
SaveCsv ==
    /\ pc = "save"
    /\ \/ /\ csv_written' = TRUE
          /\ csv' = CsvRows(proportions)
          /\ pc' = "plot"
       \/ /\ UNCHANGED <<csv_written, csv>>
          /\ pc' = "panic_save"
    /\ UNCHANGED <<argVars, lines, skipped, readerVars, fasta_exists, io_error_seen,
                   sdust_invoked, dust_output_data, low_complexity_reads, proportions>>

\* Command::new("generate_barplot.R")...status(): lines 101-111
RunPlot ==
    /\ pc = "plot"
    /\ \/ pc' = "panic_plot"                  \* the script cannot be run
       \/ pc' = "exit_plot"                   \* the script exits non-zero
       \/ pc' = "cleanup"
    /\ UNCHANGED <<argVars, lines, skipped, readerVars, fasta_exists, io_error_seen,
                   mainVars>>

\* fs::remove_file(&fasta_file).expect(..): line 114
Cleanup ==
    /\ pc = "cleanup"
    /\ \/ /\ fasta_exists' = FALSE
          /\ pc' = "done"
       \/ /\ UNCHANGED fasta_exists
          /\ pc' = "panic_remove"
    /\ UNCHANGED <<argVars, lines, skipped, readerVars, io_error_seen, mainVars>>

Next ==
    \/ NextReader
    \/ RunSdust
    \/ ParseDust
    \/ BuildTable
    \/ SaveCsv
    \/ RunPlot
    \/ Cleanup

Spec == Init /\ [][Next]_vars

----------------------------------------------------------------------------
(* Reference definitions for the properties, independent of the loops above *)

\* The characters that occur in a line of a modelled input file
ReadChars == { "A", "T", "N", "I" }

\* Every string of 2 or 3 characters that a read of a modelled file may hold
Windows ==
    { <<c1, c2>> : c1 \in ReadChars, c2 \in ReadChars }
    \cup { <<c1, c2, c3>> : c1 \in ReadChars, c2 \in ReadChars, c3 \in ReadChars }

\* The number of overlapping occurrences of m in seq
Occurrences(m, seq) ==
    Cardinality({ i \in 1..(Len(seq) - Len(m) + 1) : SubSeq(seq, i, i + Len(m) - 1) = m })

\* count(m) / (L - 1) > T for a dinucleotide, count(m) / (L - 2) > T for a trinucleotide
CrossesThreshold(m, seq, r) ==
    Occurrences(m, seq) * 100 > r * (Len(seq) - (Len(m) - 1))

SumOver(freq, len) ==
    LET RECURSIVE Sum(_)
        Sum(S) == IF S = {} THEN 0
                  ELSE LET m == CHOOSE x \in S : TRUE IN freq[m] + Sum(S \ {m})
    IN Sum({ m \in DOMAIN freq : Len(m) = len })

Votes(counts, m) == IF m \in DOMAIN counts THEN counts[m] ELSE 0

Aborted == pc \in { "panic_create", "panic_header", "panic_sdust", "exit_sdust",
                    "panic_parse", "panic_overflow", "panic_save", "panic_plot",
                    "exit_plot", "panic_remove" }

TableBuilt == DOMAIN proportions # {}

IsZero(p) == p.kind = "num" /\ p.num = 0

\* The records of the file from record number S on whose sequence line is there
\* and holds 2 characters or more
ValidRecordsAfter(file, S) ==
    Cardinality({ k \in S..(Len(file) \div 4) :
                    /\ 4 * k + 2 <= Len(file)
                    /\ Len(file[4 * k + 2].text) >= 2 })

NoIoError == \A i \in 1..Len(input) : input[i].ok

\* A decimal integer, with or without a sign
IsInteger(tok) ==
    LET digits == IF tok # <<>> /\ Head(tok) \in { "+", "-" } THEN Tail(tok) ELSE tok
    IN /\ digits # <<>>
       /\ \A i \in 1..Len(digits) : digits[i] \in DOMAIN DigitValue

IntegerValue(tok) ==
    IF Head(tok) = "-" THEN 0 - DecimalValue(Tail(tok)) ELSE UsizeValue(tok)

ThreeTokenLines(data) ==
    { i \in 1..Len(data) : Len(SplitWhitespace(data[i])) = 3 }

\* The sum, over the three-token lines that name the read, of end - start + 1
MaskedBases(data, name) ==
    LET RECURSIVE Sum(_)
        Sum(i) == IF i > Len(data) THEN 0
                  ELSE LET parts == SplitWhitespace(data[i])
                       IN (IF Len(parts) = 3 /\ parts[1] = name
                           THEN IntegerValue(parts[3]) - IntegerValue(parts[2]) + 1
                           ELSE 0) + Sum(i + 1)
    IN Sum(1)

\* The reads of the Length Table whose masked proportion is over the threshold
LowComplexityReads(data, lengths, r) ==
    { name \in DOMAIN lengths : MaskedBases(data, name) * 100 > r * lengths[name] }

\* The report without the lines that are not of three tokens
RECURSIVE OnlyThreeTokenLines(_)
OnlyThreeTokenLines(data) ==
    IF data = <<>> THEN <<>>
    ELSE (IF Len(SplitWhitespace(Head(data))) = 3 THEN <<Head(data)>> ELSE <<>>)
         \o OnlyThreeTokenLines(Tail(data))

----------------------------------------------------------------------------
(* Properties *)

\* C1: once the result table is built it holds exactly the 80 motifs over
\* {A,T,G,C} and the label LowComplexity, 81 entries, whatever the input.
C1_TableHas81Entries ==
    TableBuilt =>
        /\ DOMAIN proportions = AllMotifs \cup {LowComplexity}
        /\ Cardinality(DOMAIN proportions) = 81

\* C2: when no read was processed, every entry of the result table, the
\* LowComplexity entry included, is 0, and no NaN is written to the CSV file.
C2_ZeroReadsAllZero ==
    /\ (TableBuilt /\ total_reads = 0) =>
           \A label \in DOMAIN proportions : IsZero(proportions[label])
    /\ (csv_written /\ total_reads = 0) =>
           \A label \in DOMAIN csv : csv[label].kind = "num" /\ csv[label].fixed4 = 0

\* C3: a record at the loop head whose sequence line has fewer than 2
\* characters is passed over as a whole record of four lines: no read is
\* counted, nothing is written, the Length Table is unchanged, and its separator
\* and quality lines are consumed with it.
ShortRecordAtHead ==
    /\ pc = "loop"
    /\ (Len(input) - Len(lines)) % 4 = 0
    /\ \A i \in 1..4 : IsOkAt(lines, i)
    /\ total_reads < max_reads
    /\ Len(lines[2].text) < 2

C3_ShortRecordSkippedWhole ==
    [][ShortRecordAtHead =>
          /\ total_reads' = total_reads
          /\ fasta' = fasta
          /\ read_lengths' = read_lengths
          /\ lines' = Drop(lines, 4)]_vars

\* C4: when the reading phase ends on a file without read errors, total_reads
\* is the smaller of max_reads and the number of valid records after the first
\* skip_reads records, and it never exceeds max_reads.
C4_TotalReadsIsMinOfMaxAndValid ==
    /\ total_reads <= max_reads
    /\ (pc = "sdust" /\ NoIoError) =>
           total_reads = Min(max_reads, ValidRecordsAfter(input, skip_reads))

\* C5: for the read processed last, of length L >= 2, the per-read counts are the
\* numbers of overlapping occurrences (they sum to L - 1 and to L - 2), and a
\* motif is a hit if and only if its count over L - 1 (length 2) or L - 2
\* (length 3) is strictly greater than the threshold.
C5_HitIffProportionOverThreshold ==
    sequence # <<>> =>
        /\ Len(sequence) >= 2
        /\ \A m \in Windows :
              /\ Votes(motif_frequencies, m) = Occurrences(m, sequence)
              /\ m \in hits <=> CrossesThreshold(m, sequence, ratio)
        /\ hits \subseteq Windows
        /\ DOMAIN motif_frequencies \subseteq Windows
        /\ SumOver(motif_frequencies, 2) = Len(sequence) - 1
        /\ SumOver(motif_frequencies, 3) = Len(sequence) - 2

C5_Witness ==
    /\ sequence = <<"A", "T", "A", "T", "A", "T">>
    /\ ratio = 10
    /\ total_reads = 1
    /\ <<"A", "T">> \in hits
    /\ motif_frequencies[<<"A", "T">>] = 3

\* C6: no motif has more votes than reads were processed; a step that processes
\* a read adds one to total_reads and exactly one vote to each motif that is a
\* hit for that read, and every other step leaves the votes as they are.
VotesBounded == \A m \in DOMAIN motif_counts : motif_counts[m] <= total_reads

VoteStep ==
    IF total_reads' = total_reads + 1 /\ pc' # "panic_header"
    THEN \A m \in Windows \cup DOMAIN motif_counts' :
            Votes(motif_counts', m) =
                Votes(motif_counts, m)
                + (IF CrossesThreshold(m, sequence', ratio) THEN 1 ELSE 0)
    ELSE motif_counts' = motif_counts /\ total_reads' >= total_reads

C7_LowComplexityCount ==
    pc = "table" =>
        low_complexity_reads =
            Cardinality(LowComplexityReads(dust_output_data, read_lengths, ratio))

\* C8: lines that are not of three tokens are ignored; a three-token line whose
\* start or end is no integer is fatal; a report whose three-token lines all
\* hold integers is never fatal.
C8_ReportLineHandling ==
    /\ pc = "table" =>
          /\ low_complexity_reads =
                ParseDustOutput(OnlyThreeTokenLines(dust_output_data), read_lengths,
                                ratio, FALSE).count
          /\ \A i \in ThreeTokenLines(dust_output_data) :
                LET parts == SplitWhitespace(dust_output_data[i])
                IN IsInteger(parts[2]) /\ IsInteger(parts[3])
    /\ pc \in { "panic_parse", "panic_overflow" } =>
          \E i \in ThreeTokenLines(dust_output_data) :
             LET parts == SplitWhitespace(dust_output_data[i])
             IN ~IsInteger(parts[2]) \/ ~IsInteger(parts[3])

\* C9: once a read of a line of the input has failed, the run is aborted: sdust
\* is not invoked and no result table is written.
C9_ReadErrorIsFatal ==
    io_error_seen => (Aborted /\ ~sdust_invoked /\ ~csv_written)

\* C10: when the run has ended, by success or by one of the failures of sdust,
\* of the report parse, of the CSV write or of the plotting script, temp.fasta
\* is no longer there.
C10_TempFileRemovedOnExit ==
    pc \in { "done", "panic_sdust", "exit_sdust", "panic_parse", "panic_overflow",
             "panic_save", "panic_plot", "exit_plot" } => ~fasta_exists

====
